---- MODULE Spec2Model ----
(***************************************************************************)
(* A model of src/app.py: one run of the "Convert & Upload" request of the *)
(* KML/KMZ -> Shapefile application.  The state is the request's work      *)
(* area on disk, the values the script holds (kml_path, gdf, gdf_poly,     *)
(* shp_path, zip_path), the messages and download buttons it has shown,    *)
(* and the position of the script.  The geopandas reader, the ogr2ogr      *)
(* tool, the shapefile driver, the zip writer and the GitHub API are the   *)
(* environment: each call draws its outcome from a small set.              *)
(***************************************************************************)
EXTENDS Integers, Sequences, FiniteSets, TLC

(* ------------------------------- bounds -------------------------------- *)
\* Largest number of features in an uploaded document.
MaxFeatures == 2

(* --------------------------- program constants -------------------------- *)
MAX_UPLOAD_BYTES == 100 * 1024 * 1024

\* The three choices of the "Output CRS" select box.
EpsgChoices == {"Keep original", "EPSG:4326", "EPSG:3857"}

(* ------------------------------ strings --------------------------------- *)
\* File names are sequences of one-character strings, so that lower() and
\* endswith() are computed and not assumed.
LowerChar(c) ==
    CASE c = "K" -> "k"
      [] c = "M" -> "m"
      [] c = "L" -> "l"
      [] c = "Z" -> "z"
      [] OTHER -> c

Lower(s) == [i \in 1..Len(s) |-> LowerChar(s[i])]

EndsWith(s, suf) ==
    /\ Len(s) >= Len(suf)
    /\ SubSeq(s, Len(s) - Len(suf) + 1, Len(s)) = suf

StartsWith(s, pre) ==
    /\ Len(s) >= Len(pre)
    /\ SubSeq(s, 1, Len(pre)) = pre

RECURSIVE LStrip(_)
LStrip(s) == IF s # <<>> /\ Head(s) = " " THEN LStrip(Tail(s)) ELSE s

RECURSIVE RStrip(_)
RStrip(s) ==
    IF s # <<>> /\ s[Len(s)] = " " THEN RStrip(SubSeq(s, 1, Len(s) - 1)) ELSE s

\* str.strip()
Strip(s) == RStrip(LStrip(s))

KmzExt == <<".", "k", "m", "z">>
KmlExt == <<".", "k", "m", "l">>
ShpExt == <<".", "s", "h", "p">>
ShxExt == <<".", "s", "h", "x">>
DbfExt == <<".", "d", "b", "f">>
PrjExt == <<".", "p", "r", "j">>
CpgExt == <<".", "c", "p", "g">>
ZipExt == <<".", "z", "i", "p">>

\* The path of a file is its directory below the work area and its name; the
\* suffix tests of the program look at the end of the whole path, which is
\* the end of the name preceded by a separator.
is_kmz(filename) == EndsWith(Lower(filename), KmzExt)

is_kml(filename) == EndsWith(Lower(filename), KmlExt)

\* The test of extract_kmz on each walked file name.
IsKmlNameCaseSensitive(f) == EndsWith(f, KmlExt)
IsKmlName(f) == EndsWith(Lower(f), KmlExt)

(* ----------------------------- directories ------------------------------ *)
work_dir == <<>>
extract_dir == <<"extracted">>
shp_out_dir == <<"shapefile_out">>

File(d, n, by) == [dir |-> d, name |-> n, by |-> by]

\* Writing a file replaces the file of the same directory and name.
WriteFiles(fs, new) ==
    {f \in fs : ~\E g \in new : g.dir = f.dir /\ g.name = f.name} \cup new

(* --------------------------- uploaded inputs ---------------------------- *)
UploadNames ==
    { <<"A", ".", "K", "m", "L">>,
      <<"b", ".", "K", "M", "Z">>,
      <<"c", ".", "t", "x", "t">>,
      <<"k", "m", "z">> }

\* An archive entry: the directories it lies in and its file name.
Entry(d, n) == [dir |-> d, name |-> n]

Archives ==
    { {},
      { Entry(<<>>, <<"r", ".", "t", "x", "t">>) },
      { Entry(<<>>, <<"d", ".", "k", "m", "l", "x">>) },
      { Entry(<<"s">>, <<"E", ".", "K", "M", "L">>),
        Entry(<<>>, <<"r", ".", "t", "x", "t">>) },
      { Entry(<<"s">>, <<"e", ".", "k", "m", "l">>),
        Entry(<<>>, <<"d", ".", "k", "m", "l">>) } }

NoUpload == [name |-> <<>>, archive |-> {}, present |-> FALSE]

Uploads ==
    { [name |-> n, archive |-> {}, present |-> TRUE] :
          n \in {m \in UploadNames : ~is_kmz(m)} }
    \cup
    { [name |-> n, archive |-> a, present |-> TRUE] :
          n \in {m \in UploadNames : is_kmz(m)}, a \in Archives }

(* ------------------------------ extract_kmz ----------------------------- *)
NoPath == [dir |-> <<"-">>, name |-> <<>>]

\* os.walk(dest_dir) is top-down: the files of a directory are tested before
\* any of its subdirectories is entered; the order within one directory and
\* between sibling directories is the order of the directory listing, which
\* is not fixed.  WalkFirst(d) is the set of files the loop can return from
\* the tree below d: empty when no name below d passes the test.
RECURSIVE WalkFirst(_, _, _)
WalkFirst(entries, d, depth) ==
    LET here == {e \in entries : e.dir = d /\ IsKmlName(e.name)}
        subs == {e.dir : e \in {x \in entries :
                     Len(x.dir) > Len(d) /\ SubSeq(x.dir, 1, Len(d)) = d}}
        next == {SubSeq(s, 1, Len(d) + 1) : s \in subs}
    IN  IF here # {} THEN here
        ELSE IF depth = 0 THEN {}
        ELSE UNION {WalkFirst(entries, s, depth - 1) : s \in next}

\* The values extract_kmz can return for an archive: the path of a found
\* document below dest_dir, or None.
extract_kmz(archive, dest_dir) ==
    LET found == WalkFirst(archive, <<>>, 2)
    IN  IF found = {} THEN {NoPath}
        ELSE {[dir |-> dest_dir \o e.dir, name |-> e.name] : e \in found}

(* ------------------------------ geometries ------------------------------ *)
\* A geometry: its type name, the members of a GeometryCollection, one
\* coordinate number standing for its coordinates, and whether a line is a
\* closed ring.  A feature without geometry holds NoGeom.
Geom(t, parts, xy, closed) ==
    [type |-> t, parts |-> parts, xy |-> xy, closed |-> closed]

NoGeom == Geom("None", <<>>, 0, FALSE)
APoint == Geom("Point", <<>>, 3, FALSE)
ARing == Geom("LineString", <<>>, 5, TRUE)
APolygon == Geom("Polygon", <<>>, 7, FALSE)
AMultiPolygon == Geom("MultiPolygon", <<>>, 9, FALSE)
\* Two polygonal members (one of them nested) and two others.
ACollection ==
    Geom("GeometryCollection",
         << APolygon, APoint,
            Geom("GeometryCollection", <<AMultiPolygon, ARing>>, 0, FALSE) >>,
         0, FALSE)

Geometries == {NoGeom, APoint, ARing, APolygon, AMultiPolygon, ACollection}

\* A row of a GeoDataFrame: the index label it was read with, its attribute
\* columns and its geometry.
Feature(i, g) == [fid |-> i, attrs |-> [Name |-> i], geometry |-> g]

\* A document of three closed line rings and no polygon.
ThreeRings == <<Feature(1, ARing), Feature(2, ARing), Feature(3, ARing)>>

\* The documents an upload can hold: up to MaxFeatures features of any
\* geometry, and the document of three rings.
Docs ==
    UNION { { [i \in 1..n |-> Feature(i, gs[i])] : gs \in [1..n -> Geometries] }
            : n \in 0..MaxFeatures }
    \cup {ThreeRings}

\* The CRS geopandas reports for a KML document (the KML driver always
\* reports WGS 84).
KmlCrs == "4326"

\* A GeoDataFrame: its CRS ("none" when it has none) and its rows; NoneGdf is
\* the Python value None.
Gdf(crs, rows) == [isNone |-> FALSE, crs |-> crs, rows |-> rows]
NoneGdf == [isNone |-> TRUE, crs |-> "none", rows |-> <<>>]

(* ------------------------ read_kml_with_geopandas ----------------------- *)
\* The outcome of one gpd.read_file call on the document: it throws, it
\* silently yields no row, or it yields the rows of the document.
ReadOutcomes == {"throw", "empty", "rows"}

ReadResult(o, crs, doc) ==
    IF o = "rows" THEN Gdf(crs, doc) ELSE Gdf(crs, <<>>)

\* What one call is seen to do: it raised, it returned a frame of length 0,
\* or it returned some rows.
Seen(o, doc) ==
    IF o = "throw" THEN "raised"
    ELSE IF Len(ReadResult(o, "none", doc).rows) = 0 THEN "zero" ELSE "some"

\* read_kml_with_geopandas for the outcomes r1 of the default read and r2,
\* r3 of the reads with driver="KML": the second read is made when the
\* first yields no row (inside the try) or throws (in the except clause);
\* when the second, made inside the try, throws, the except clause makes a
\* third.  The result is the returned frame, NoneGdf when the function
\* raised (the caller then leaves gdf = None), and the calls made.
read_kml_with_geopandas(r1, r2, r3, crs, doc) ==
    LET first == ReadResult(r1, crs, doc)
        second == ReadResult(r2, crs, doc)
        third == ReadResult(r3, crs, doc)
        c1 == [driver |-> "default", seen |-> Seen(r1, doc)]
        c2 == [driver |-> "KML", seen |-> Seen(r2, doc)]
        c3 == [driver |-> "KML", seen |-> Seen(r3, doc)]
    IN  IF r1 # "throw"
        THEN IF Len(first.rows) = 0
             THEN IF r2 # "throw"
                  THEN [gdf |-> second, reads |-> <<c1, c2>>]
                  ELSE IF r3 # "throw"
                       THEN [gdf |-> third, reads |-> <<c1, c2, c3>>]
                       ELSE [gdf |-> NoneGdf, reads |-> <<c1, c2, c3>>]
             ELSE [gdf |-> first, reads |-> <<c1>>]
        ELSE IF r2 # "throw"
             THEN [gdf |-> second, reads |-> <<c1, c2>>]
             ELSE [gdf |-> NoneGdf, reads |-> <<c1, c2>>]

(* ---------------------------- polygon filter ---------------------------- *)
\* gdf[~gdf.geometry.isna()]
NotNa(rows) == SelectSeq(rows, LAMBDA r : r.geometry.type # "None")

\* geom_types.isin(["Polygon", "MultiPolygon"])
PolyMaskAnyType(r) == TRUE
PolyMaskWithLines(r) ==
    r.geometry.type \in {"Polygon", "MultiPolygon", "LineString"}
PolyMaskWithCollections(r) ==
    r.geometry.type \in {"Polygon", "MultiPolygon", "GeometryCollection"}
PolyMask(r) == r.geometry.type \in {"Polygon", "MultiPolygon"}

\* gdf_poly = gdf[poly_mask].copy(): boolean masking keeps the rows, their
\* index labels and their columns, in order.
PolyFilter(g) == Gdf(g.crs, SelectSeq(NotNa(g.rows), PolyMask))

\* len(gdf_poly) == 0
NothingToConvertNever(gp) == FALSE
NothingToConvert(gp) == Len(gp.rows) = 0

\* gdf is not None and len(gdf) > 0
UsePrimaryWhenRead(g) == ~g.isNone
UsePrimaryNever(g) == FALSE
UsePrimary(g) == ~g.isNone /\ Len(g.rows) > 0

(* ------------------------------ reprojection ---------------------------- *)
\* int(out_epsg.split(":")[1])
EpsgCode(choice) ==
    CASE choice = "EPSG:4326" -> "4326"
      [] choice = "EPSG:3857" -> "3857"

\* The coordinate number of a position in another CRS: metres of EPSG:3857
\* against degrees of EPSG:4326.
Project(src, dst, xy) ==
    IF src = dst THEN xy
    ELSE IF dst = "3857" THEN xy * 100 ELSE xy \div 100

\* GeoDataFrame.to_crs(epsg=code), when it does not throw.
to_crs(gp, code) ==
    Gdf(code,
        [i \in 1..Len(gp.rows) |->
            [gp.rows[i] EXCEPT !.geometry.xy =
                Project(gp.crs, code, gp.rows[i].geometry.xy)]])

\* to_crs throws on a frame without CRS; it can also fail for a frame with one.
ToCrsMustThrow(gp) == gp.crs = "none"

\* The value of gdf_poly after the "Optionally reproject" block.
AfterReprojectAssignFirst(gp, choice, threw) ==
    IF choice = "Keep original" THEN gp ELSE to_crs(gp, EpsgCode(choice))
AfterReproject(gp, choice, threw) ==
    IF choice = "Keep original" \/ threw THEN gp
    ELSE to_crs(gp, EpsgCode(choice))

(* ------------------------------ ogr2ogr --------------------------------- *)
\* The sets of files one run of ogr2ogr can leave under the output name.
OgrPartSets ==
    { {}, {DbfExt}, {ShpExt, ShxExt, DbfExt}, {ShpExt, ShxExt, DbfExt, PrjExt} }

\* A shapefile holds one kind of shape; read back, a polygon shapefile
\* yields Polygon and MultiPolygon rows, and any shapefile can hold rows
\* without geometry.
ShapeKinds == {"Point", "LineString", "Polygon"}
TypesOfKind(k) ==
    IF k = "Polygon" THEN {"Polygon", "MultiPolygon", "None"} ELSE {k, "None"}

\* The rows of the shapefile ogr2ogr made of the document, as gpd.read_file
\* returns them: indexed by position.
OgrRows(doc, kind) ==
    LET kept == SelectSeq(doc, LAMBDA r : r.geometry.type \in TypesOfKind(kind))
    IN  [i \in 1..Len(kept) |-> [kept[i] EXCEPT !.fid = i]]

\* try_ogr2ogr_convert returns out_shp only when the command did not raise
\* and the .shp file exists.
try_ogr2ogr_convert(raised, parts) == ~raised /\ ShpExt \in parts

(* ------------------------ write_shapefile_from_gdf ---------------------- *)
\* The sets of files gdf.to_file can leave when it returns: the parts of the
\* shapefile, with a projection file when the frame has a CRS, or nothing
\* when the driver fails silently.
SerializerPartSets(gp) ==
    { {},
      {ShpExt, ShxExt, DbfExt, CpgExt}
          \cup (IF gp.crs # "none" THEN {PrjExt} ELSE {}) }

(* --------------------------- zip_shapefile_files ------------------------ *)
\* os.path.splitext(name)[0]: the name up to its last dot.
RECURSIVE SplitExtBase(_)
SplitExtBase(n) ==
    IF n = <<>> THEN <<>>
    ELSE IF n[Len(n)] = "." THEN SubSeq(n, 1, Len(n) - 1)
    ELSE SplitExtBase(SubSeq(n, 1, Len(n) - 1))

\* glob.glob(f"{base}.*")
GlobParts(fs, shp) ==
    {f \in fs : f.dir = shp.dir
                /\ StartsWith(f.name, SplitExtBase(shp.name) \o <<".">>)}

\* file_under_limit
file_under_limit(size) == size <= MAX_UPLOAD_BYTES

ZipSizes == {1, MAX_UPLOAD_BYTES, MAX_UPLOAD_BYTES + 1}

\* The texts of the "Output base name" input, and the name used for an
\* empty one.
NameInputs == { <<"o", " ">>, <<" ">> }
DefaultBasename == <<"c", "p">>

\* shutil.rmtree(tmp_root)
Rmtree(fs) == {}

\* The value of ogr_run before the command has run.
NoRun == [raised |-> FALSE, parts |-> {}]

(* -------------------------------- state --------------------------------- *)
VARIABLES
    pc,            \* position of the script
    github,        \* GITHUB_TOKEN and GITHUB_REPO are both set
    uploaded,      \* the file of the uploader
    tmp_root,      \* whether tempfile.mkdtemp has made the work area
    dirs,          \* directories that exist below tmp_root
    files,         \* files that exist below tmp_root
    kml_path,      \* the located document
    doc,           \* the features the located document holds
    reads,         \* the gpd.read_file calls of read_kml_with_geopandas
    gdf,           \* the frame of the primary reader (NoneGdf: None)
    path,          \* the branch of "if gdf is not None and len(gdf) > 0"
    ogr_run,       \* what the ogr2ogr command did: raised, files left
    gdf_ogr,       \* the frame read from the output of ogr2ogr
    out_basename,  \* the output base name
    gdf_poly,      \* the polygon frame
    out_epsg,      \* the chosen output CRS
    handed,        \* the frames passed to write_shapefile_from_gdf
    shp_path,      \* the path write_shapefile_from_gdf returned
    zip_entries,   \* the entries of the ZIP archive written
    msgs,          \* the st.* messages shown
    downloads,     \* the download buttons shown
    calls          \* the helpers and tools the script has called

vars == << pc, github, uploaded, tmp_root, dirs, files, kml_path, doc, reads,
           gdf, path, ogr_run, gdf_ogr, out_basename, gdf_poly, out_epsg, handed,
           shp_path, zip_entries, msgs, downloads, calls >>

Init ==
    /\ pc = "idle"
    /\ github \in BOOLEAN
    /\ uploaded = NoUpload
    /\ tmp_root = FALSE
    /\ dirs = {}
    /\ files = {}
    /\ kml_path = NoPath
    /\ doc = <<>>
    /\ reads = <<>>
    /\ gdf = NoneGdf
    /\ path = "none"
    /\ ogr_run = NoRun
    /\ gdf_ogr = NoneGdf
    /\ out_basename = <<>>
    /\ gdf_poly = NoneGdf
    /\ out_epsg = "unread"
    /\ handed = <<>>
    /\ shp_path = NoPath
    /\ zip_entries = {}
    /\ msgs = {}
    /\ downloads = {}
    /\ calls = {}

\* raise inside the try block: "except Exception as e: st.exception(e)",
\* then the finally clause.  shown holds the messages shown before the
\* raise and the kind of the exception.
Raise(shown) ==
    /\ msgs' = msgs \cup shown \cup {"exception"}
    /\ pc' = "finally"

\* st.stop() inside the try block: the script ends through the finally
\* clause, the except clause does not catch it.
StopSkipsFinally(shown) ==
    /\ msgs' = msgs \cup shown
    /\ pc' = "end"
Stop(shown) ==
    /\ msgs' = msgs \cup shown
    /\ pc' = "finally"

\* The button is pressed: without an upload the script warns and stops; with
\* one it makes the work area and saves the upload into it.
Click ==
    /\ pc = "idle"
    /\ \E u \in Uploads \cup {NoUpload} :
        IF ~u.present
        THEN /\ msgs' = msgs \cup {"warn_no_upload"}
             /\ pc' = "end"
             /\ UNCHANGED << uploaded, tmp_root, dirs, files >>
        ELSE /\ uploaded' = u
             /\ tmp_root' = TRUE
             /\ dirs' = {work_dir}
             /\ files' = {File(work_dir, u.name, "upload")}
             /\ msgs' = msgs \cup {"info_saved"}
             /\ pc' = "locate"
    /\ UNCHANGED << github, kml_path, doc, reads, gdf, path, ogr_run,
                    gdf_ogr,
                    out_basename, gdf_poly, out_epsg, handed, shp_path,
                    zip_entries, downloads, calls >>

\* "Extract/locate KML".
Locate ==
    /\ pc = "locate"
    /\ IF is_kmz(uploaded.name)
       THEN /\ dirs' = dirs \cup {extract_dir}
            /\ calls' = calls \cup {"extract_kmz"}
            /\ \E opened \in BOOLEAN :
                IF ~opened
                THEN \* zipfile.ZipFile raises on a file that is no archive
                     /\ Raise({"BadZipFile"})
                     /\ UNCHANGED << files, kml_path >>
                ELSE /\ files' = WriteFiles(files,
                            {File(extract_dir \o e.dir, e.name, "kmz") :
                                 e \in uploaded.archive})
                     /\ \E p \in extract_kmz(uploaded.archive, extract_dir) :
                         IF p = NoPath
                         THEN /\ Raise({"err_no_kml", "RuntimeError"})
                              /\ UNCHANGED kml_path
                         ELSE /\ kml_path' = p
                              /\ msgs' = msgs \cup {"info_found_kml"}
                              /\ pc' = "read"
       ELSE IF is_kml(uploaded.name)
       THEN /\ kml_path' = [dir |-> work_dir, name |-> uploaded.name]
            /\ pc' = "read"
            /\ UNCHANGED << dirs, files, msgs, calls >>
       ELSE /\ Raise({"err_unsupported", "RuntimeError"})
            /\ UNCHANGED << dirs, files, kml_path, calls >>
    /\ UNCHANGED << github, uploaded, tmp_root, doc, reads, gdf, path,
                    ogr_run, gdf_ogr,
                    out_basename, gdf_poly, out_epsg, handed, shp_path,
                    zip_entries, downloads >>

\* "Read with geopandas", then the output name and directory.
Read ==
    /\ pc = "read"
    /\ \E d \in Docs,
          r1 \in ReadOutcomes, r2 \in ReadOutcomes, r3 \in ReadOutcomes,
          nm \in NameInputs :
        LET got == read_kml_with_geopandas(r1, r2, r3, KmlCrs, d)
        IN  /\ doc' = d
            /\ gdf' = got.gdf
            /\ reads' = got.reads
            /\ msgs' = msgs \cup
                   (IF got.gdf.isNone THEN {"warn_read_failed"} ELSE {"ok_read"})
            /\ out_basename' =
                   (IF Strip(nm) # <<>> THEN Strip(nm) ELSE DefaultBasename)
            /\ pc' = IF UsePrimary(got.gdf) THEN "primary" ELSE "fallback"
    /\ dirs' = dirs \cup {shp_out_dir}
    /\ calls' = calls \cup {"read_kml_with_geopandas"}
    /\ UNCHANGED << github, uploaded, tmp_root, files, kml_path, path,
                    ogr_run, gdf_ogr,
                    gdf_poly, out_epsg, handed, shp_path, zip_entries,
                    downloads >>

\* The download button of the original upload, read from saved_upload_path.
OriginalOffer ==
    {[label |-> "Download original upload", file |-> f] :
         f \in {x \in files : x.dir = work_dir /\ x.name = uploaded.name}}

\* The branch taken when geopandas read some rows: filter, and stop when no
\* polygon is left.
FilterPrimary ==
    /\ pc = "primary"
    /\ path' = "primary"
    /\ gdf' = Gdf(gdf.crs, NotNa(gdf.rows))
    /\ gdf_poly' = PolyFilter(gdf)
    /\ IF NothingToConvert(PolyFilter(gdf))
       THEN /\ downloads' = downloads \cup OriginalOffer
            /\ Stop({"warn_no_polygons"})
       ELSE /\ pc' = "reproject"
            /\ UNCHANGED << msgs, downloads >>
    /\ UNCHANGED << github, uploaded, tmp_root, dirs, files, kml_path, doc,
                    reads, ogr_run, gdf_ogr, out_basename, out_epsg, handed,
                    shp_path,
                    zip_entries, calls >>

\* The else branch: ogr2ogr, then its output read back and filtered.
Fallback ==
    /\ pc = "fallback"
    /\ path' = "fallback"
    /\ calls' = calls \cup {"try_ogr2ogr_convert"}
    /\ \E raised \in BOOLEAN, parts \in OgrPartSets, kind \in ShapeKinds,
          readable \in BOOLEAN :
        /\ ogr_run' = [raised |-> raised, parts |-> parts]
        /\ files' = WriteFiles(files,
               {File(shp_out_dir, out_basename \o x, "ogr2ogr") : x \in parts})
        /\ IF ~try_ogr2ogr_convert(raised, parts)
           THEN /\ Raise({"info_fallback", "err_conversion_failed", "RuntimeError"})
                /\ UNCHANGED << gdf_ogr, gdf_poly, downloads >>
           ELSE IF ~readable
           THEN \* gpd.read_file(ogr_shp) raises
                /\ Raise({"info_fallback", "info_read_ogr", "ReadError"})
                /\ UNCHANGED << gdf_ogr, gdf_poly, downloads >>
           ELSE LET got == Gdf(IF PrjExt \in parts THEN "4326" ELSE "none",
                               OgrRows(doc, kind))
                IN  /\ gdf_ogr' = Gdf(got.crs, NotNa(got.rows))
                    /\ gdf_poly' = PolyFilter(got)
                    /\ IF NothingToConvert(PolyFilter(got))
                       THEN /\ downloads' = downloads \cup OriginalOffer
                            /\ Stop({"info_fallback", "info_read_ogr",
                                     "warn_no_polygons"})
                       ELSE /\ msgs' = msgs \cup {"info_fallback", "info_read_ogr"}
                            /\ pc' = "reproject"
                            /\ UNCHANGED downloads
    /\ UNCHANGED << github, uploaded, tmp_root, dirs, kml_path, doc, reads, gdf,
                    out_basename, out_epsg, handed, shp_path, zip_entries >>

\* "Optionally reproject", the same block on both branches.
Reproject ==
    /\ pc = "reproject"
    /\ \E choice \in EpsgChoices, threw \in BOOLEAN :
        /\ choice = "Keep original" => ~threw
        /\ (choice # "Keep original" /\ ToCrsMustThrow(gdf_poly)) => threw
        /\ out_epsg' = choice
        /\ gdf_poly' = AfterReproject(gdf_poly, choice, threw)
        /\ calls' = calls \cup (IF choice # "Keep original" THEN {"to_crs"} ELSE {})
        /\ msgs' = msgs \cup
               (IF choice = "Keep original" THEN {}
                ELSE IF threw THEN {"warn_reproject_failed"}
                ELSE {"info_reprojected"})
    /\ pc' = "write"
    /\ UNCHANGED << github, uploaded, tmp_root, dirs, files, kml_path, doc,
                    reads, gdf, path, ogr_run, gdf_ogr, out_basename, handed,
                    shp_path,
                    zip_entries, downloads >>

\* write_shapefile_from_gdf(gdf_poly, shp_out_dir, out_basename)
Write ==
    /\ pc = "write"
    /\ handed' = Append(handed, gdf_poly)
    /\ calls' = calls \cup {"write_shapefile_from_gdf"}
    /\ \E threw \in BOOLEAN, parts \in SerializerPartSets(gdf_poly) :
        IF threw
        THEN /\ Raise({"WriteError"})
             /\ UNCHANGED << files, shp_path >>
        ELSE /\ files' = WriteFiles(files,
                    {File(shp_out_dir, out_basename \o x, "serializer") :
                         x \in parts})
             /\ shp_path' = [dir |-> shp_out_dir, name |-> out_basename \o ShpExt]
             /\ msgs' = msgs \cup {"ok_written"}
             /\ pc' = "zip"
    /\ UNCHANGED << github, uploaded, tmp_root, dirs, kml_path, doc, reads, gdf,
                    path, ogr_run, gdf_ogr, out_basename, gdf_poly, out_epsg,
                    zip_entries, downloads >>

\* zip_shapefile_files(shp_path, zip_path)
Zip ==
    /\ pc = "zip"
    /\ calls' = calls \cup {"zip_shapefile_files"}
    /\ LET files_to_zip == GlobParts(files, shp_path)
       IN  IF files_to_zip = {}
           THEN \* FileNotFoundError("No shapefile parts found to zip.")
                /\ Raise({"FileNotFoundError"})
                /\ UNCHANGED << files, zip_entries >>
           ELSE \E threw \in BOOLEAN :
                IF threw
                THEN /\ Raise({"ZipError"})
                     /\ UNCHANGED << files, zip_entries >>
                ELSE /\ zip_entries' = files_to_zip
                     /\ files' = WriteFiles(files,
                            {File(work_dir, out_basename \o ZipExt, "zip")})
                     /\ msgs' = msgs \cup {"ok_zip"}
                     /\ pc' = "deliver"
    /\ UNCHANGED << github, uploaded, tmp_root, dirs, kml_path, doc, reads, gdf,
                    path, ogr_run, gdf_ogr, out_basename, gdf_poly, out_epsg,
                    handed, shp_path, downloads >>

\* The download button of the ZIP, read from zip_path.
ZipOffer(label) ==
    {[label |-> label, file |-> f] :
         f \in {x \in files : x.dir = work_dir
                              /\ x.name = out_basename \o ZipExt}}

\* "Upload to GitHub or offer download".
Deliver ==
    /\ pc = "deliver"
    /\ IF ~github
       THEN /\ downloads' = downloads \cup ZipOffer("Download ZIP")
            /\ msgs' = msgs \cup {"warn_not_configured"}
            /\ pc' = "finally"
            /\ UNCHANGED calls
       ELSE \E size \in ZipSizes, uploadedOk \in BOOLEAN :
            IF ~file_under_limit(size)
            THEN /\ downloads' = downloads \cup ZipOffer("Download ZIP")
                 /\ Stop({"err_over_limit"})
                 /\ UNCHANGED calls
            ELSE /\ calls' = calls \cup {"github_upload_file"}
                 /\ pc' = "finally"
                 /\ IF uploadedOk
                    THEN /\ msgs' = msgs \cup {"ok_upload"}
                         /\ UNCHANGED downloads
                    ELSE /\ msgs' = msgs \cup {"err_upload"}
                         /\ downloads' = downloads
                                \cup ZipOffer("Download ZIP (local)")
    /\ UNCHANGED << github, uploaded, tmp_root, dirs, files, kml_path, doc,
                    reads, gdf, path, ogr_run, gdf_ogr, out_basename, gdf_poly,
                    out_epsg, handed, shp_path, zip_entries >>

\* finally: shutil.rmtree(tmp_root)
Cleanup ==
    /\ pc = "finally"
    /\ files' = Rmtree(files)
    /\ dirs' = Rmtree(dirs)
    /\ calls' = calls \cup {"rmtree"}
    /\ pc' = "end"
    /\ UNCHANGED << github, uploaded, tmp_root, kml_path, doc, reads, gdf, path,
                    ogr_run, gdf_ogr, out_basename, gdf_poly, out_epsg, handed,
                    shp_path, zip_entries, msgs, downloads >>

Next ==
    \/ Click
    \/ Locate
    \/ Read
    \/ FilterPrimary
    \/ Fallback
    \/ Reproject
    \/ Write
    \/ Zip
    \/ Deliver
    \/ Cleanup

Spec == Init /\ [][Next]_vars

(* ------------------------------- claims --------------------------------- *)
PolygonTypes == {"Polygon", "MultiPolygon"}

\* The frame the polygon filter was applied to on the branch taken.
Source == IF path = "primary" THEN gdf ELSE gdf_ogr

\* The rows of a frame whose own geometry is a polygon.
PolygonRows(rows) ==
    SelectSeq(rows, LAMBDA r : r.geometry.type \in PolygonTypes)

ArchiveMade == zip_entries # {} \/ "ok_zip" \in msgs

\* C1: on both branches every feature passed to write_shapefile_from_gdf has
\* a geometry, and it is a Polygon or a MultiPolygon.
C1_OnlyPolygonsHanded ==
    \A i \in 1..Len(handed) : \A j \in 1..Len(handed[i].rows) :
        handed[i].rows[j].geometry.type \in PolygonTypes

C1_Witness ==
    /\ pc = "end"
    /\ path = "primary"
    /\ Len(handed) = 1
    /\ "ok_zip" \in msgs
    /\ \E i \in 1..Len(doc) : doc[i].geometry.type = "GeometryCollection"
    /\ \E i \in 1..Len(doc) : doc[i].geometry.type = "Polygon"

\* C2: when the polygon filter leaves no row, the request ends in the "no
\* polygons" outcome: the writer and the zip step are not called, no
\* archive is made, and the original upload is offered for download; the
\* writer is never given an empty frame.
C2_EmptyFilterStops ==
    /\ \A i \in 1..Len(handed) : Len(handed[i].rows) > 0
    /\ (path # "none" /\ ~gdf_poly.isNone /\ Len(gdf_poly.rows) = 0) =>
          /\ pc \in {"finally", "end"}
          /\ "warn_no_polygons" \in msgs
          /\ "exception" \notin msgs
          /\ handed = <<>>
          /\ calls \cap {"write_shapefile_from_gdf", "zip_shapefile_files",
                         "github_upload_file"} = {}
          /\ ~ArchiveMade
          /\ ~\E f \in files : f.by = "zip"
          /\ \E d \in downloads :
                 d.file.by = "upload" /\ d.file.name = uploaded.name

C2_Witness ==
    /\ pc = "end"
    /\ path = "primary"
    /\ doc = <<Feature(1, APoint)>>
    /\ "warn_no_polygons" \in msgs
    /\ downloads # {}

RECURSIVE PolygonalMembers(_), PolygonalIn(_)
PolygonalIn(parts) ==
    IF parts = <<>> THEN 0
    ELSE PolygonalMembers(Head(parts)) + PolygonalIn(Tail(parts))
PolygonalMembers(g) ==
    IF g.type \in PolygonTypes THEN 1
    ELSE IF g.type = "GeometryCollection" THEN PolygonalIn(g.parts)
    ELSE 0

\* The rows of the polygon frame that come from feature f of the document
\* and carry its attributes.
EmittedFrom(f) ==
    {j \in 1..Len(gdf_poly.rows) :
         gdf_poly.rows[j].fid = f.fid /\ gdf_poly.rows[j].attrs = f.attrs}

Rings == {i \in 1..Len(doc) :
              doc[i].geometry.type = "LineString" /\ doc[i].geometry.closed}

ParsedEmpty == ~gdf.isNone /\ Len(gdf.rows) = 0 /\ doc = <<>> /\ reads # <<>>

C7_ZipExactlySerializerFiles ==
    (pc = "deliver") =>
        /\ zip_entries # {}
        /\ zip_entries = {f \in files : f.by = "serializer"}

\* Reprojection was tried and threw.
ReprojectFailed == "warn_reproject_failed" \in msgs

\* C8: when the transform throws, the request goes on to the writer with the
\* filtered frame as it was (rows, coordinates, CRS), and with "Keep
\* original" no transform is tried.
C8_ReprojectFailureKeepsFrame ==
    /\ ReprojectFailed =>
          /\ gdf_poly = PolyFilter(Source)
          /\ pc \in {"write", "zip", "deliver", "finally", "end"}
          /\ pc # "write" => handed = <<PolyFilter(Source)>>
          /\ (pc = "end" /\ {"WriteError", "FileNotFoundError", "ZipError"}
                                \cap msgs = {}) => ArchiveMade
    /\ out_epsg = "Keep original" =>
          /\ "to_crs" \notin calls
          /\ gdf_poly = PolyFilter(Source)
          /\ msgs \cap {"warn_reproject_failed", "info_reprojected"} = {}

C8_Witness ==
    /\ pc = "end"
    /\ ReprojectFailed
    /\ out_epsg = "EPSG:3857"
    /\ gdf_poly.crs = "none"
    /\ "ok_zip" \in msgs

\* The entries of the uploaded archive whose name ends in .kml in any case.
KmlEntries ==
    {e \in uploaded.archive : EndsWith(Lower(e.name), KmlExt)}

ReaderOrLaterCalls ==
    {"read_kml_with_geopandas", "try_ogr2ogr_convert",
     "write_shapefile_from_gdf", "zip_shapefile_files", "github_upload_file"}

\* C9: for a .kmz upload the located document is an extracted entry whose
\* name ends in .kml in any case, none of them lying in a directory above
\* it; without such an entry the request ends in "No KML found" and no
\* reader, writer or zip step runs.  For a .kml upload the saved upload is
\* the document and nothing is extracted.
C9_Resolver ==
    (uploaded.present /\ pc \notin {"idle", "locate"}) =>
        IF EndsWith(Lower(uploaded.name), KmzExt)
        THEN /\ "extract_kmz" \in calls
             /\ "BadZipFile" \notin msgs =>
                   IF KmlEntries = {}
                   THEN /\ "err_no_kml" \in msgs
                        /\ kml_path = NoPath
                        /\ calls \cap ReaderOrLaterCalls = {}
                        /\ pc \in {"finally", "end"}
                   ELSE /\ "err_no_kml" \notin msgs
                        /\ \E e \in KmlEntries :
                              /\ kml_path = [dir |-> extract_dir \o e.dir,
                                             name |-> e.name]
                              /\ ~\E o \in KmlEntries : Len(o.dir) < Len(e.dir)
        ELSE IF EndsWith(Lower(uploaded.name), KmlExt)
        THEN /\ kml_path = [dir |-> work_dir, name |-> uploaded.name]
             /\ "extract_kmz" \notin calls
             /\ ~\E f \in files : f.by = "kmz"
        ELSE /\ "err_unsupported" \in msgs
             /\ calls \cap ReaderOrLaterCalls = {}

C9_Witness ==
    /\ pc = "end"
    /\ uploaded.archive # {}
    /\ "err_no_kml" \in msgs
    /\ calls = {"extract_kmz", "rmtree"}

PrimaryFailed(r) ==
    /\ Len(r) >= 2
    /\ r[1].driver = "default" /\ r[1].seen \in {"raised", "zero"}
    /\ r[Len(r)].driver = "KML" /\ r[Len(r)].seen \in {"raised", "zero"}

ToolGaveShapefile == ~ogr_run.raised /\ ShpExt \in ogr_run.parts

\* C10: ogr2ogr is run only after the default read and the read with the
\* KML driver each threw or gave no row, never after a read that gave rows
\* was returned; when the tool raises or leaves no .shp the request ends in
\* "conversion failed" without archive, otherwise its output is read back
\* and filtered by the same polygon test.
C10_FallbackOnlyAfterReaderFailed ==
    /\ "try_ogr2ogr_convert" \in calls =>
          /\ PrimaryFailed(reads)
          /\ gdf.isNone \/ Len(gdf.rows) = 0
          /\ path = "fallback"
    /\ (reads # <<>> /\ reads[Len(reads)].seen = "some") =>
          "try_ogr2ogr_convert" \notin calls
    /\ ("try_ogr2ogr_convert" \in calls /\ ~ToolGaveShapefile) =>
          /\ "err_conversion_failed" \in msgs
          /\ "info_read_ogr" \notin msgs
          /\ gdf_ogr.isNone
          /\ handed = <<>>
          /\ ~ArchiveMade
          /\ pc \in {"finally", "end"}
    /\ ("try_ogr2ogr_convert" \in calls /\ ToolGaveShapefile) =>
          /\ "err_conversion_failed" \notin msgs
          /\ "info_read_ogr" \in msgs
          /\ "ReadError" \notin msgs =>
                /\ ~gdf_ogr.isNone
                /\ Len(gdf_poly.rows) = Len(PolygonRows(gdf_ogr.rows))
                /\ \A j \in 1..Len(gdf_poly.rows) :
                       gdf_poly.rows[j].fid = PolygonRows(gdf_ogr.rows)[j].fid

C10_Witness ==
    /\ pc = "end"
    /\ path = "fallback"
    /\ Len(reads) = 3
    /\ reads[1].seen = "zero"
    /\ ToolGaveShapefile
    /\ "ok_zip" \in msgs

====
